---- MODULE Spec2Model ----
(***************************************************************************)
(* The cache-keyed generation wrapper of the HOLLY TTS backends             *)
(* (holly_fish_voice.py, holly_fish_voice_v2.py, holly_fish_voice_cloud.py, *)
(* holly_gtts_voice.py, holly_piper_voice.py): cache key, cache directory,  *)
(* generate, get_cache_stats, clear_cache.                                  *)
(*                                                                          *)
(* Strings are sequences of one-character strings.  An audio buffer is a    *)
(* record [kind, n]: what the samples are and how many there are.  A file   *)
(* of the cache directory is a record [st, n, sr, len, h1, h2]: its state,  *)
(* the frame count and sample rate of its WAV header, the frames its data   *)
(* section holds, and the audio whose samples were written last as a first  *)
(* half and as a second half of a buffer.                                   *)
(***************************************************************************)
EXTENDS Integers, Sequences, FiniteSets, TLC

\* Longest request text of the sequential specification.
MaxTextLen == 2

\* Longest text of the fallback-length specification.
MaxFallbackLen == 24

\* Most constructor runs of a process.
MaxCtor == 3

\* Longest text and longest voice name of the cache-key specification.
MaxKeyLen == 2

\* Most frames of an MP3 in the decoding specification.
MaxFrames == 2

(***************************************************************************)
(* IEEE-754 double arithmetic, as far as the fallback durations need it:    *)
(* a correctly rounded quotient of two small naturals, a correctly rounded  *)
(* product of a small natural and a double, and int() of the result.        *)
(* A natural of more than 31 bits is a sequence of 15-bit limbs, most       *)
(* significant first.  A double is [m, e]: the limbs of its significand     *)
(* and its exponent, value m * 2^e.                                         *)
(***************************************************************************)
Limb == 2 ^ 15

\* limbs \div d and limbs % d for a small natural d, from remainder r on.
RECURSIVE DivLimbs(_, _, _)
DivLimbs(limbs, d, r) ==
  IF limbs = <<>> THEN [q |-> <<>>, r |-> r]
  ELSE LET t == r * Limb + limbs[1]
           rest == DivLimbs(Tail(limbs), d, t % d)
       IN [q |-> <<t \div d>> \o rest.q, r |-> rest.r]

\* limbs * k + c for small naturals k and c.
RECURSIVE MulLimbs(_, _, _)
MulLimbs(limbs, k, c) ==
  IF limbs = <<>> THEN (IF c = 0 THEN <<>> ELSE <<c>>)
  ELSE LET t == limbs[Len(limbs)] * k + c
       IN MulLimbs(SubSeq(limbs, 1, Len(limbs) - 1), k, t \div Limb)
            \o <<t % Limb>>

RECURSIVE LimbsToNat(_)
LimbsToNat(limbs) ==
  IF limbs = <<>> THEN 0
  ELSE Limb * LimbsToNat(SubSeq(limbs, 1, Len(limbs) - 1)) + limbs[Len(limbs)]

\* The bits of limbs, most significant first.
LimbBits(limbs) ==
  [i \in 1..(15 * Len(limbs)) |->
     (limbs[((i - 1) \div 15) + 1] \div (2 ^ (14 - ((i - 1) % 15)))) % 2]

RECURSIVE BitsToNat(_, _, _)
BitsToNat(bits, lo, hi) ==
  IF lo > hi THEN 0 ELSE 2 * BitsToNat(bits, lo, hi - 1) + bits[hi]

\* The limbs of a sequence of bits.
BitsToLimbs(bits) ==
  LET pad == (15 - (Len(bits) % 15)) % 15
      b == [i \in 1..(pad + Len(bits)) |-> IF i <= pad THEN 0 ELSE bits[i - pad]]
  IN [j \in 1..(Len(b) \div 15) |-> BitsToNat(b, 15 * (j - 1) + 1, 15 * j)]

\* limbs * 2^e (plus a non-zero fraction when sticky) rounded to a 53-bit
\* significand, to nearest, ties to even.
RoundDouble(limbs, e, sticky) ==
  LET bits == LimbBits(limbs)
      N == Len(bits)
      ones == {i \in 1..N : bits[i] = 1}
  IN IF ones = {} THEN [m |-> <<>>, e |-> e]
     ELSE LET lead == CHOOSE i \in ones : \A j \in ones : i <= j
              L == N - lead + 1
          IN IF L <= 53 THEN [m |-> limbs, e |-> e]
             ELSE LET keep == BitsToLimbs(SubSeq(bits, lead, lead + 52))
                      guard == bits[lead + 53]
                      rest == sticky \/ \E i \in (lead + 54)..N : bits[i] = 1
                      up == guard = 1 /\ (rest \/ bits[lead + 52] = 1)
                  IN [m |-> IF up THEN MulLimbs(keep, 1, 1) ELSE keep,
                      e |-> e + (L - 53)]

\* float(a) / float(b), for naturals a and b > 0 below 2^15.
FloatDiv(a, b) ==
  LET d == DivLimbs(<<a, 0, 0, 0, 0, 0>>, b, 0)
  IN RoundDouble(d.q, 0 - 75, d.r # 0)

\* float(k) * x, for a natural k below 2^15.
FloatMul(k, x) == RoundDouble(MulLimbs(x.m, k, 0), x.e, FALSE)

\* int(x), for 0 <= x < 2^31: truncation.
FloatToInt(x) ==
  LET bits == LimbBits(x.m)
  IN IF x.e >= 0 THEN LimbsToNat(x.m) * (2 ^ x.e)
     ELSE BitsToNat(bits, 1, Len(bits) + x.e)

\* int(rate * (len / per)): the sample count of a fallback buffer, computed
\* as the code computes it (duration = len(text) / per, then int(rate * duration)).
IntRateTimesDuration(rate, len, per) ==
  FloatToInt(FloatMul(rate, FloatDiv(len, per)))

\* The same, tabulated for the lengths the requests reach (the EXCEPT makes
\* the table a computed value instead of a rule applied at every use).
LenTable(rate, per) ==
  LET f == [len \in 0..MaxFallbackLen |-> IntRateTimesDuration(rate, len, per)]
  IN [f EXCEPT ![0] = 0]

\* The (sample rate, characters per second) pairs of the fallbacks.
FallbackRates == {<<24000, 20>>, <<24000, 15>>, <<22050, 15>>}

SilenceTable ==
  LET f == [k \in FallbackRates |-> LenTable(k[1], k[2])]
  IN [f EXCEPT ![<<24000, 20>>][0] = 0]

SilenceSamples(rate, len, per) == SilenceTable[<<rate, per>>][len]

(***************************************************************************)
(* Requests                                                                 *)
(***************************************************************************)
Backends == {"fish", "fishv2", "cloud", "gtts", "piper"}

HOLLY == <<"h", "o", "l", "l", "y">>
Voices == {HOLLY, <<"x">>}

TextsUpTo(lo, hi) == UNION {[1..n -> {"a"}] : n \in lo..hi}
Texts == TextsUpTo(1, MaxTextLen)
LongTexts == TextsUpTo(0, MaxFallbackLen)

(***************************************************************************)
(* Audio buffers and cache files                                            *)
(***************************************************************************)
NoAudio == [kind |-> "none", n |-> 0]
Silence(n) == [kind |-> "silence", n |-> n]
Speech(n) == [kind |-> "speech", n |-> n]

\* Sample counts and sample rates an external engine may answer with.
SynthLens == {4000, 6000}

Absent ==
  [st |-> "absent", n |-> 0, sr |-> 0, len |-> 0, h1 |-> NoAudio, h2 |-> NoAudio]
Garbage == [Absent EXCEPT !.st = "garbage"]
EmptyFile == [Absent EXCEPT !.st = "empty"]
\* What sf.write(path, audio, sr) leaves when it runs to its end.
WavFile(audio, sr) ==
  [st |-> "wav", n |-> audio.n, sr |-> sr, len |-> audio.n,
   h1 |-> audio, h2 |-> audio]
\* What sf.write leaves when the data write fails after the header went out:
\* closing the file rewrites the header with the frames written so far.
PartialFile(audio, sr) ==
  [st |-> "wav", n |-> audio.n \div 2, sr |-> sr, len |-> audio.n \div 2,
   h1 |-> audio, h2 |-> NoAudio]

Min(a, b) == IF a <= b THEN a ELSE b
Max(a, b) == IF a >= b THEN a ELSE b

\* The frames sf.read delivers: those the header announces, as far as the
\* data section holds them.
DataFrames(f) == Min(f.n, f.len)

\* The samples sf.read decodes from a readable file: a buffer as it was
\* written when both halves are of one buffer and the frames delivered are
\* its frames.
Decode(f) ==
  IF f.h1 = f.h2 /\ f.h1.kind # "none" /\ DataFrames(f) = f.h1.n THEN f.h1
  ELSE [kind |-> "damaged", n |-> DataFrames(f)]

\* sf.read(path): raises unless the file parses as audio.
sf_read(f) ==
  IF f.st = "wav" THEN [exc |-> FALSE, audio |-> Decode(f), sr |-> f.sr]
  ELSE [exc |-> TRUE, audio |-> NoAudio, sr |-> 0]

\* st_size: a 44-byte header and 16-bit samples (soundfile's default WAV subtype).
FileSize(f) ==
  CASE f.st \in {"wav", "nohdr"} -> 44 + 2 * f.len
    [] f.st = "garbage" -> 7
    [] OTHER -> 0

(***************************************************************************)
(* State                                                                    *)
(***************************************************************************)
VARIABLES
  backend,  \* the backend module this process runs
  apiKey,   \* HollyFishVoiceCloud.api_key is set
  texts,    \* the texts callers send in this run
  cache,    \* CACHE_DIR: cache key -> file, for the *.wav files that exist
  last,     \* the call that returned last, with what it observed and did
  th,       \* the calls in flight in concurrent workers
  written,  \* the keys whose cache write completed since the last clear_cache
  hd        \* the backend handle: the module globals and the last request

vars == <<backend, apiKey, texts, cache, last, th, written, hd>>

(***************************************************************************)
(* Cache store                                                              *)
(***************************************************************************)
\* hashlib.md5(...).hexdigest(): taken as injective on its input.
md5(content) == <<"md5", content>>

\* A key that also digests something that changes between calls.
get_cache_key_salted(b, text, voice) ==
  md5(<<Cardinality(DOMAIN cache)>> \o text \o <<":">> \o voice)

\* _get_cache_key: text:voice in the fish backends, text alone in gTTS and Piper.
get_cache_key(b, text, voice) ==
  IF b \in {"gtts", "piper"} THEN md5(text)
  ELSE md5(text \o <<":">> \o voice)

\* _get_cache_path(key).exists()
Exists(c, key) == key \in DOMAIN c

FileAt(c, key) == IF Exists(c, key) THEN c[key] ELSE Absent

PutFile(c, key, f) == [k \in DOMAIN c \cup {key} |-> IF k = key THEN f ELSE c[k]]

None == [exc |-> FALSE, found |-> FALSE, audio |-> NoAudio, log |-> {}]

\* A _load_from_cache that never finds an entry.
load_from_cache_blind(c, key) == None

\* _load_from_cache without its try/except.
load_from_cache_unguarded(c, key) ==
  IF Exists(c, key)
  THEN LET r == sf_read(c[key])
       IN [exc |-> r.exc, found |-> ~r.exc, audio |-> r.audio,
           log |-> IF r.exc THEN {} ELSE {"cache_hit"}]
  ELSE None

\* _load_from_cache: the decoded audio, or None when the file does not exist
\* or sf.read raises (bare except: pass).  The stored rate is dropped.
load_from_cache(c, key) ==
  IF Exists(c, key)
  THEN LET r == sf_read(c[key])
       IN IF r.exc THEN None
          ELSE [exc |-> FALSE, found |-> TRUE, audio |-> r.audio,
                log |-> {"cache_hit"}]
  ELSE None

\* How a write of a cache file may end: completely, at open() before the file
\* is created or truncated, after the truncation with nothing written, or
\* after the header and part of the data.
WriteOutcomes == {"ok", "open_failed", "empty", "partial"}

\* An sf.write that refuses to open a path that exists.
sf_write_exclusive(c, key, audio, sr, w) ==
  CASE w = "ok" /\ ~Exists(c, key) ->
         [exc |-> FALSE, cache |-> PutFile(c, key, WavFile(audio, sr))]
    [] OTHER -> [exc |-> TRUE, cache |-> c]

\* sf.write(str(cache_path), audio, sample_rate)
sf_write(c, key, audio, sr, w) ==
  CASE w = "ok" -> [exc |-> FALSE, cache |-> PutFile(c, key, WavFile(audio, sr))]
    [] w = "open_failed" -> [exc |-> TRUE, cache |-> c]
    [] w = "empty" -> [exc |-> TRUE, cache |-> PutFile(c, key, EmptyFile)]
    [] OTHER -> [exc |-> TRUE, cache |-> PutFile(c, key, PartialFile(audio, sr))]

\* A _save_to_cache that unlinks the cache file when sf.write raises.
save_to_cache_unlinking(c, key, audio, sr, w) ==
  LET r == sf_write(c, key, audio, sr, w)
  IN [exc |-> FALSE,
      cache |-> IF r.exc THEN [k \in DOMAIN c \ {key} |-> c[k]] ELSE r.cache,
      log |-> IF r.exc THEN {"cache_save_failed"} ELSE {"cached"}]

\* _save_to_cache: sf.write under try/except Exception, which logs.
save_to_cache(c, key, audio, sr, w) ==
  LET r == sf_write(c, key, audio, sr, w)
  IN [exc |-> FALSE, cache |-> r.cache,
      log |-> IF r.exc THEN {"cache_save_failed"} ELSE {"cached"}]

\* CACHE_DIR.glob("*.wav")
GlobWav(c) == DOMAIN c

RECURSIVE SumSizes(_, _)
SumSizes(c, keys) ==
  IF keys = {} THEN 0
  ELSE LET k == CHOOSE x \in keys : TRUE
       IN FileSize(c[k]) + SumSizes(c, keys \ {k})

\* round(total / (1024 * 1024), 2), in hundredths of a megabyte.
RoundMb(total) ==
  LET q == (total * 100) \div (1024 * 1024)
      r == (total * 100) % (1024 * 1024)
  IN IF 2 * r > 1024 * 1024 \/ (2 * r = 1024 * 1024 /\ q % 2 = 1)
     THEN q + 1 ELSE q

\* get_cache_stats
get_cache_stats(c) ==
  LET cache_files == GlobWav(c)
      total_size == SumSizes(c, cache_files)
  IN [cached_phrases |-> Cardinality(cache_files),
      total_size |-> total_size,
      total_size_mb |-> RoundMb(total_size)]

\* clear_cache that unlinks only the files that decode.
clear_cache_readable(c) ==
  LET keep == {k \in GlobWav(c) : c[k].st # "wav"}
  IN [k \in keep |-> c[k]]

\* clear_cache: unlink every file of the glob.
clear_cache(c) ==
  LET keep == DOMAIN c \ GlobWav(c)
  IN [k \in keep |-> c[k]]

(***************************************************************************)
(* Synthesis backends                                                       *)
(***************************************************************************)
Tone(n) == [kind |-> "tone", n |-> n]

\* One hit rate for every backend.
HitRate_uniform(b) == 24000

\* The rate generate returns with a cache hit.
HitRate(b) == IF b = "piper" THEN 22050 ELSE 24000

\* What the external engine of backend b may do with one request: answer
\* audio of some length and rate, or fail in one of its ways.
SynthOutcomes(b) ==
  LET ok(rates) == {[r |-> "ok", n |-> n, sr |-> sr] : n \in SynthLens, sr \in rates}
      fail(ways) == {[r |-> w, n |-> 0, sr |-> 0] : w \in ways}
  IN CASE b = "fish" -> {[r |-> "ok", n |-> 0, sr |-> 0]}
       [] b = "fishv2" -> ok({24000}) \cup fail({"raise"})
       [] b = "cloud" -> ok({24000, 44100}) \cup fail({"status", "timeout", "undecodable"})
       [] b = "gtts" -> ok({24000, 44100}) \cup fail({"error"})
       [] OTHER -> ok({22050, 44100}) \cup fail({"exit", "timeout"})

\* The temporary file of one generate call when the call returns: none when
\* no NamedTemporaryFile(delete=False) was reached (the placeholder and the
\* in-process engine, the missing API key, a cloud request that fails or
\* answers a status other than 200 before the file is made), deleted when
\* os.unlink ran after the decode, left when the body raised in between
\* (an undecodable response, tts.save or the MP3 decode failing, a piper exit
\* code or timeout).
TempFile(b, hasKey, s) ==
  CASE b \in {"fish", "fishv2"} -> "none"
    [] b = "cloud" ->
         IF ~hasKey \/ s.r \in {"status", "timeout"} THEN "none"
         ELSE IF s.r = "ok" THEN "deleted" ELSE "left"
    [] OTHER -> IF s.r = "ok" THEN "deleted" ELSE "left"

\* The try body of generate up to the cache write: exc when it raises, early
\* when it returns before any engine call, call when the engine was called.
TryBody(b, hasKey, text, s) ==
  LET res(exc, early, call, audio, sr, log) ==
        [exc |-> exc, early |-> early, call |-> call, audio |-> audio,
         sr |-> sr, log |-> log, tmp |-> TempFile(b, hasKey, s)]
  IN CASE b = "fish" ->
            res(FALSE, FALSE, FALSE,
                Silence(SilenceSamples(24000, Len(text), 20)), 24000, {"generated"})
       [] b = "fishv2" ->
            IF s.r = "ok"
            THEN res(FALSE, FALSE, TRUE, Speech(s.n), 24000, {"generated"})
            ELSE res(TRUE, FALSE, TRUE, NoAudio, 0, {})
       [] b = "cloud" ->
            IF ~hasKey
            THEN res(FALSE, TRUE, FALSE,
                     Silence(SilenceSamples(24000, Len(text), 20)), 24000,
                     {"no_api_key", "generated_fallback"})
            ELSE IF s.r = "ok"
            THEN res(FALSE, FALSE, TRUE, Speech(s.n), s.sr, {"generated"})
            ELSE res(TRUE, FALSE, TRUE, NoAudio, 0, {})
       [] OTHER ->
            IF s.r = "ok"
            THEN res(FALSE, FALSE, TRUE, Speech(s.n), s.sr, {"generated"})
            ELSE res(TRUE, FALSE, TRUE, NoAudio, 0, {})

\* int(sample_rate * duration) with duration = 0.5: the length of the beep.
BeepSamples == FloatToInt(FloatMul(24000, FloatDiv(1, 2)))

\* An except branch that answers silence of an estimated duration in v2 too.
ExceptBranch_silence(b, text) ==
  IF b = "fish"
  THEN [raised |-> TRUE, audio |-> NoAudio, sr |-> 0, log |-> {"generation_failed"}]
  ELSE [raised |-> FALSE, audio |-> Silence(1200 * Len(text)), sr |-> 24000,
        log |-> {"generation_failed"}]

\* The except branch of generate: re-raise in holly_fish_voice.py, a beep in
\* v2, silence of an estimated duration in the others.
ExceptBranch(b, text) ==
  LET res(raised, audio, sr, log) ==
        [raised |-> raised, audio |-> audio, sr |-> sr, log |-> log]
  IN CASE b = "fish" -> res(TRUE, NoAudio, 0, {"generation_failed"})
       [] b = "fishv2" ->
            res(FALSE, Tone(BeepSamples), 24000,
                {"generation_failed", "fallback_beep"})
       [] b = "cloud" ->
            res(FALSE, Silence(SilenceSamples(24000, Len(text), 20)), 24000,
                {"generation_failed"})
       [] b = "gtts" ->
            res(FALSE, Silence(SilenceSamples(24000, Len(text), 15)), 24000,
                {"generation_failed"})
       [] OTHER ->
            res(FALSE, Silence(SilenceSamples(22050, Len(text), 15)), 22050,
                {"generation_failed"})

(***************************************************************************)
(* generate                                                                 *)
(***************************************************************************)
NoCall ==
  [op |-> "none", text |-> <<>>, voice |-> <<>>, uc |-> FALSE, key |-> <<>>,
   before |-> Absent, after |-> Absent, raised |-> FALSE, hit |-> FALSE,
   gen |-> FALSE, call |-> FALSE, synth |-> "none", fallback |-> FALSE,
   saved |-> "none", audio |-> NoAudio, sr |-> 0, log |-> {},
   cached_phrases |-> 0, total_size |-> 0, total_size_mb |-> 0,
   follows |-> "other", tmp |-> "none"]

\* The part of generate after the cache lookup ld, with t the run of the try
\* body and x the run of the except branch.
generate_miss(b, c, text, voice, uc, s, w, cache_key, base, t, x, sv) ==
  IF t.exc \/ sv.exc
  THEN [cache |-> sv.cache,
        ret |-> [base EXCEPT !.gen = TRUE, !.call = t.call, !.synth = s.r,
                             !.fallback = ~x.raised, !.raised = x.raised,
                             !.audio = x.audio, !.sr = x.sr, !.tmp = t.tmp,
                             !.log = {"generating"} \cup x.log]]
  ELSE [cache |-> sv.cache,
        ret |-> [base EXCEPT !.gen = TRUE, !.call = t.call, !.synth = s.r,
                             !.fallback = t.early,
                             !.saved = IF uc /\ ~t.early THEN w ELSE "none",
                             !.audio = t.audio, !.sr = t.sr, !.tmp = t.tmp,
                             !.log = {"generating"} \cup t.log \cup sv.log]]

\* A cache write that does not look at use_cache.
generate_save_always(c, uc, w, cache_key, t) ==
  IF ~t.exc /\ ~t.early
  THEN save_to_cache(c, cache_key, t.audio, t.sr, w)
  ELSE [exc |-> FALSE, cache |-> c, log |-> {}]

\* A cache write that also stores the audio of the missing-key fallback.
generate_save_early(c, uc, w, cache_key, t) ==
  IF uc /\ ~t.exc
  THEN save_to_cache(c, cache_key, t.audio, t.sr, w)
  ELSE [exc |-> FALSE, cache |-> c, log |-> {}]

\* The cache write of the try body, when the body reaches it.
generate_save(c, uc, w, cache_key, t) ==
  IF uc /\ ~t.exc /\ ~t.early
  THEN save_to_cache(c, cache_key, t.audio, t.sr, w)
  ELSE [exc |-> FALSE, cache |-> c, log |-> {}]

generate_try(b, c, text, voice, uc, s, w, cache_key, base, t, x) ==
  generate_miss(b, c, text, voice, uc, s, w, cache_key, base, t, x,
                generate_save(c, uc, w, cache_key, t))

generate_from(b, hasKey, c, text, voice, uc, s, w, cache_key, ld, base) ==
  IF ld.exc
  THEN [cache |-> c, ret |-> [base EXCEPT !.raised = TRUE]]
  ELSE IF ld.found
  THEN [cache |-> c,
        ret |-> [base EXCEPT !.hit = TRUE, !.audio = ld.audio,
                             !.sr = HitRate(b),
                             !.log = ld.log \cup {"generated_cached"}]]
  ELSE generate_try(b, c, text, voice, uc, s, w, cache_key, base,
                    TryBody(b, hasKey, text, s), ExceptBranch(b, text))

\* generate(text, voice, use_cache) of backend b on cache directory c, with
\* the engine answering s and the cache write ending w: the new directory and
\* what the call did and returned.
generate(b, hasKey, c, text, voice, uc, s, w) ==
  LET cache_key == get_cache_key(b, text, voice)
  IN generate_from(b, hasKey, c, text, voice, uc, s, w, cache_key,
                   IF uc THEN load_from_cache(c, cache_key) ELSE None,
                   [NoCall EXCEPT !.op = "generate", !.text = text,
                                  !.voice = voice, !.uc = uc, !.key = cache_key,
                                  !.before = FileAt(c, cache_key)])

(***************************************************************************)
(* The backend handle                                                       *)
(***************************************************************************)
\* No request served yet.
NoRequest ==
  [op |-> "none", raised |-> FALSE, ran |-> FALSE, ret |-> 0, status |-> 0,
   model_loaded |-> FALSE, body |-> "none", gen_raised |-> FALSE]

\* The module globals at import: _holly_voice_instance = None in the backend
\* module, holly_voice = None in app.py (an instance is a positive number, 0
\* is None); ctor counts the constructor runs started, oks those that
\* returned; req is the last request.
NoHandle == [inst |-> 0, app |-> 0, ctor |-> 0, oks |-> 0, req |-> NoRequest]

\* How the constructor of backend b may end: _load_model re-raises in
\* holly_fish_voice.py; in v2 the engine loads, or loads after the download,
\* or the download or the second load raises; the others do not raise.
CtorOutcomes(b) ==
  CASE b = "fish" -> {"loaded", "load_failed"}
    [] b = "fishv2" ->
         {"loaded", "downloaded", "download_failed", "second_load_failed"}
    [] OTHER -> {"loaded"}

CtorRaises(o) == o \in {"load_failed", "download_failed", "second_load_failed"}

\* HollyFishVoice() run from the globals h with outcome o: a new instance,
\* numbered by the constructor run, or the exception.
Construct(h, o) ==
  IF CtorRaises(o)
  THEN [h |-> [h EXCEPT !.ctor = h.ctor + 1], raised |-> TRUE, ran |-> TRUE,
        ret |-> 0]
  ELSE [h |-> [h EXCEPT !.ctor = h.ctor + 1, !.oks = h.oks + 1],
        raised |-> FALSE, ran |-> TRUE, ret |-> h.ctor + 1]

\* An assignment that stores what the constructor had built when it raised.
holly_voice_made_partial(r) == [r EXCEPT !.h.inst = r.h.ctor]

\* The assignment and the return of get_holly_voice after the constructor
\* run r.
holly_voice_made(r) ==
  IF r.raised THEN r ELSE [r EXCEPT !.h.inst = r.ret]

\* A get_holly_voice that constructs at every call.
get_holly_voice_eager(h, o) == holly_voice_made(Construct(h, o))

\* get_holly_voice()
get_holly_voice(h, o) ==
  IF h.inst = 0 THEN holly_voice_made(Construct(h, o))
  ELSE [h |-> h, raised |-> FALSE, ran |-> FALSE, ret |-> h.inst]

\* The assignment and the return of get_generator after get_holly_voice
\* ended as r.
generator_made(r) ==
  IF r.raised THEN r ELSE [r EXCEPT !.h.app = r.ret]

\* app.get_generator()
get_generator(h, o) ==
  IF h.app = 0 THEN generator_made(get_holly_voice(h, o))
  ELSE [h |-> h, raised |-> FALSE, ran |-> FALSE, ret |-> h.app]

\* A health_check without its try/except: the exception leaves the handler.
health_check_unguarded(r) ==
  [NoRequest EXCEPT !.op = "health", !.raised = r.raised, !.ran = r.ran,
                    !.ret = r.ret, !.status = IF r.raised THEN 0 ELSE 200,
                    !.model_loaded = r.ret # 0]

\* app.health_check, with get_generator ended as r: 200 and the status
\* body, or 503.
health_check(r) ==
  IF r.raised
  THEN [NoRequest EXCEPT !.op = "health", !.ran = r.ran, !.status = 503]
  ELSE [NoRequest EXCEPT !.op = "health", !.ran = r.ran, !.ret = r.ret,
                         !.status = 200, !.model_loaded = r.ret # 0]

\* app.generate_tts, with get_generator ended as r and generator.generate
\* ended as g: 200 and the whole WAV body, or 500.
generate_tts(r, g) ==
  IF r.raised
  THEN [NoRequest EXCEPT !.op = "generate_tts", !.ran = r.ran, !.status = 500]
  ELSE IF g.ret.raised
  THEN [NoRequest EXCEPT !.op = "generate_tts", !.ran = r.ran, !.ret = r.ret,
                         !.gen_raised = TRUE, !.status = 500]
  ELSE [NoRequest EXCEPT !.op = "generate_tts", !.ran = r.ran, !.ret = r.ret,
                         !.status = 200, !.body = "wav"]

(***************************************************************************)
(* The calls of one process, one after the other                            *)
(***************************************************************************)
Init ==
  /\ backend \in Backends
  /\ apiKey \in (IF backend = "cloud" THEN BOOLEAN ELSE {FALSE})
  /\ texts \in {{t} : t \in Texts}
  /\ cache = [k \in {} |-> Absent]
  /\ last = NoCall
  /\ th = <<>>
  /\ written = {}
  /\ hd = NoHandle

\* How a call relates to the call that returned just before it: a generate
\* after a generate of the same text (same voice, with or without use_cache,
\* or another voice), a get_cache_stats right after a clear_cache that had
\* files to unlink or had none.
Follows(prev, ret) ==
  CASE ret.op = "generate" /\ prev.op = "generate" /\ prev.text = ret.text ->
         IF prev.voice # ret.voice THEN "other_voice"
         ELSE IF prev.uc THEN "same_cached" ELSE "same_uncached"
    [] ret.op = "get_cache_stats" /\ prev.op = "clear_cache" ->
         IF prev.cached_phrases > 0 THEN "cleared_files" ELSE "cleared_empty"
    [] OTHER -> "other"

\* The keys written since the last clear_cache, after the call ret.
Written(ret) ==
  CASE ret.op = "clear_cache" -> {}
    [] ret.op = "generate" /\ ret.saved = "ok" -> written \cup {ret.key}
    [] OTHER -> written

Returned(c, ret) ==
  /\ cache' = c
  /\ last' = [ret EXCEPT !.after = FileAt(c, ret.key),
                         !.follows = Follows(last, ret)]
  /\ written' = Written(ret)
  /\ UNCHANGED <<backend, apiKey, texts, th, hd>>

\* A call that ended as r = [cache, ret].
Completed(r) == Returned(r.cache, r.ret)

\* The engine answers and write outcomes a call can meet: one stand-in where
\* the call never reaches the engine, or never reaches the cache write.
EngineChoices(b, hasKey, c, text, voice, uc) ==
  LET ld == IF uc THEN load_from_cache(c, get_cache_key(b, text, voice)) ELSE None
  IN IF (~ld.exc /\ ld.found) \/ b = "fish" \/ (b = "cloud" /\ ~hasKey)
     THEN {[r |-> "ok", n |-> 0, sr |-> 0]}
     ELSE SynthOutcomes(b)

WriteChoices(b, hasKey, c, text, voice, uc, s) ==
  LET ld == IF uc THEN load_from_cache(c, get_cache_key(b, text, voice)) ELSE None
      t == TryBody(b, hasKey, text, s)
  IN IF uc /\ ~ld.exc /\ ~ld.found /\ ~t.exc /\ ~t.early
     THEN WriteOutcomes ELSE {"ok"}

Generate ==
  \E text \in texts, voice \in Voices, uc \in BOOLEAN :
    \E s \in EngineChoices(backend, apiKey, cache, text, voice, uc) :
      \E w \in WriteChoices(backend, apiKey, cache, text, voice, uc, s) :
        Completed(generate(backend, apiKey, cache, text, voice, uc, s, w))

GetCacheStats ==
  LET st == get_cache_stats(cache)
  IN Returned(cache, [NoCall EXCEPT !.op = "get_cache_stats",
                                    !.cached_phrases = st.cached_phrases,
                                    !.total_size = st.total_size,
                                    !.total_size_mb = st.total_size_mb])

\* cached_phrases of a clear_cache call: the files its glob listed.
ClearCache ==
  Returned(clear_cache(cache),
           [NoCall EXCEPT !.op = "clear_cache",
                          !.cached_phrases = Cardinality(GlobWav(cache))])

\* Garbage bytes written over the cache file of a request's key.
CorruptFile ==
  \E text \in texts, voice \in Voices :
    LET key == get_cache_key(backend, text, voice)
    IN Returned(PutFile(cache, key, Garbage),
                [NoCall EXCEPT !.op = "corrupt", !.key = key,
                               !.before = FileAt(cache, key)])

Next == Generate \/ GetCacheStats \/ ClearCache \/ CorruptFile

Spec == Init /\ [][Next]_vars

(***************************************************************************)
(* The missing-credentials fallback of the cloud backend over the lengths   *)
(* of text                                                                  *)
(***************************************************************************)
InitLen ==
  /\ backend = "cloud"
  /\ apiKey = FALSE
  /\ texts \in {{t} : t \in LongTexts}
  /\ cache = [k \in {} |-> Absent]
  /\ last = NoCall
  /\ th = <<>>
  /\ written = {}
  /\ hd = NoHandle

NextLen == Generate

SpecLen == InitLen /\ [][NextLen]_vars

(***************************************************************************)
(* generate, get_cache_stats and clear_cache calls alone, no file written   *)
(* into the cache directory from outside                                    *)
(***************************************************************************)
NextCount == Generate \/ GetCacheStats \/ ClearCache

SpecCount == Init /\ [][NextCount]_vars

(***************************************************************************)
(* The handle and the endpoints that build it, one request at a time        *)
(***************************************************************************)
\* The constructor outcomes a call can meet: one stand-in where no
\* constructor runs.
CtorChoices(runs) == IF runs THEN CtorOutcomes(backend) ELSE {"loaded"}

\* The constructor may still run, or is not needed.
CanConstruct(runs) == runs => hd.ctor < MaxCtor

Handled(h, req) ==
  /\ hd' = [h EXCEPT !.req = req]
  /\ UNCHANGED <<backend, apiKey, texts, cache, last, th, written>>

\* What a call r of get_holly_voice or get_generator leaves as the last
\* request.
Called(op, r) ==
  Handled(r.h, [NoRequest EXCEPT !.op = op, !.raised = r.raised,
                                 !.ran = r.ran, !.ret = r.ret])

GetHollyVoice ==
  /\ CanConstruct(hd.inst = 0)
  /\ \E o \in CtorChoices(hd.inst = 0) :
       Called("get_holly_voice", get_holly_voice(hd, o))

GetGenerator ==
  /\ CanConstruct(hd.app = 0 /\ hd.inst = 0)
  /\ \E o \in CtorChoices(hd.app = 0 /\ hd.inst = 0) :
       Called("get_generator", get_generator(hd, o))

Health(r) == Handled(r.h, health_check(r))

HealthCheck ==
  /\ CanConstruct(hd.app = 0 /\ hd.inst = 0)
  /\ \E o \in CtorChoices(hd.app = 0 /\ hd.inst = 0) :
       Health(get_generator(hd, o))

\* generate_tts for a request with the default voice and use_cache.
Tts(r, g) ==
  /\ hd' = [r.h EXCEPT !.req = generate_tts(r, g)]
  /\ IF r.raised
     THEN UNCHANGED <<cache, last, written>>
     ELSE /\ cache' = g.cache
          /\ last' = [g.ret EXCEPT !.after = FileAt(g.cache, g.ret.key),
                                   !.follows = Follows(last, g.ret)]
          /\ written' = Written(g.ret)
  /\ UNCHANGED <<backend, apiKey, texts, th>>

GenerateTts ==
  /\ CanConstruct(hd.app = 0 /\ hd.inst = 0)
  /\ \E o \in CtorChoices(hd.app = 0 /\ hd.inst = 0), text \in texts :
       \E s \in EngineChoices(backend, apiKey, cache, text, HOLLY, TRUE) :
         \E w \in WriteChoices(backend, apiKey, cache, text, HOLLY, TRUE, s) :
           Tts(get_generator(hd, o),
               generate(backend, apiKey, cache, text, HOLLY, TRUE, s, w))

NextHandle == GetHollyVoice \/ GetGenerator \/ HealthCheck \/ GenerateTts

SpecHandle == Init /\ [][NextHandle]_vars

(***************************************************************************)
(* get_holly_voice() called by two threads at once, one step per read or    *)
(* write of the module global                                               *)
(***************************************************************************)
IdleCaller == [pc |-> "start", made |-> 0, ret |-> 0, raised |-> FALSE]

InitCallers ==
  /\ backend \in Backends
  /\ apiKey = (backend = "cloud")
  /\ texts \in {{t} : t \in Texts}
  /\ cache = [k \in {} |-> Absent]
  /\ last = NoCall
  /\ th = [w \in {1, 2} |-> IdleCaller]
  /\ written = {}
  /\ hd = NoHandle

CallerStep(w, rec, h) ==
  /\ th' = [th EXCEPT ![w] = rec]
  /\ hd' = h
  /\ UNCHANGED <<backend, apiKey, texts, cache, last, written>>

\* if _holly_voice_instance is None:
CheckNone ==
  \E w \in DOMAIN th :
    /\ th[w].pc = "start"
    /\ CallerStep(w, [th[w] EXCEPT !.pc = IF hd.inst = 0 THEN "construct"
                                          ELSE "return"], hd)

\* HollyFishVoice()
Constructed(w, r) ==
  CallerStep(w, IF r.raised
                THEN [th[w] EXCEPT !.pc = "done", !.raised = TRUE]
                ELSE [th[w] EXCEPT !.pc = "assign", !.made = r.ret],
             r.h)

RunConstructor ==
  \E w \in DOMAIN th :
    /\ th[w].pc = "construct"
    /\ \E o \in CtorOutcomes(backend) : Constructed(w, Construct(hd, o))

\* _holly_voice_instance = <the new instance>
AssignInstance ==
  \E w \in DOMAIN th :
    /\ th[w].pc = "assign"
    /\ CallerStep(w, [th[w] EXCEPT !.pc = "return"],
                  [hd EXCEPT !.inst = th[w].made])

\* return _holly_voice_instance
ReturnInstance ==
  \E w \in DOMAIN th :
    /\ th[w].pc = "return"
    /\ CallerStep(w, [th[w] EXCEPT !.pc = "done", !.ret = hd.inst], hd)

NextCallers == CheckNone \/ RunConstructor \/ AssignInstance \/ ReturnInstance

SpecCallers == InitCallers /\ [][NextCallers]_vars

(***************************************************************************)
(* The constructors of the local-model backends step by step (v2: engine    *)
(* load, download, second load, reference audio; Piper: model files,        *)
(* download), and generate on the Piper instance they leave                 *)
(***************************************************************************)
CtorIdle ==
  [pc |-> "start", trace |-> <<>>, model_path |-> "none", raised |-> FALSE]

InitCtor ==
  /\ \/ backend = "fishv2" /\ texts \in {{t} : t \in Texts}
     \/ backend = "piper" /\ texts \in {{t} : t \in LongTexts}
  /\ apiKey = FALSE
  /\ cache = [k \in {} |-> Absent]
  /\ last = NoCall
  /\ th = CtorIdle
  /\ written = {}
  /\ hd = NoHandle

\* The constructor goes on at pc after the event e; at "failed" the exception
\* has left __init__.
CtorMoved(e, pc, model_path) ==
  /\ th' = [th EXCEPT !.trace = Append(th.trace, e), !.pc = pc,
                      !.model_path = model_path, !.raised = (pc = "failed")]
  /\ UNCHANGED <<backend, apiKey, texts, cache, last, written, hd>>

\* self.engine = TTSInferenceEngine(...) in the try block.
LoadEngine ==
  /\ backend = "fishv2"
  /\ th.pc = "start"
  /\ \/ CtorMoved("load_ok", "reference", "none")
     \/ CtorMoved("load_failed", "download", "none")

\* A constructor that downloads again when the download raised.
v2_after_download_retry(ok) == IF ok THEN "reload" ELSE "download"

\* Where __init__ goes after self._download_models(): nothing catches its
\* exception.
v2_after_download(ok) == IF ok THEN "reload" ELSE "failed"

\* self._download_models() in the except block.
DownloadModels ==
  /\ backend = "fishv2"
  /\ th.pc = "download"
  /\ \E ok \in BOOLEAN :
       CtorMoved(IF ok THEN "download_ok" ELSE "download_failed",
                 v2_after_download(ok), "none")

\* self.engine = TTSInferenceEngine(...) in the except block.
ReloadEngine ==
  /\ backend = "fishv2"
  /\ th.pc = "reload"
  /\ \/ CtorMoved("load_ok", "reference", "none")
     \/ CtorMoved("load_failed", "failed", "none")

\* self.reference_audio = self._load_reference_audio(): sf.read of the first
\* reference file may raise.
LoadReferenceAudio ==
  /\ backend = "fishv2"
  /\ th.pc = "reference"
  /\ \/ CtorMoved("reference_ok", "ready", "none")
     \/ CtorMoved("reference_failed", "failed", "none")

\* HollyPiperVoice._download_model: model_file.exists() and
\* config_file.exists().
CheckModelFiles ==
  /\ backend = "piper"
  /\ th.pc = "start"
  /\ \/ CtorMoved("model_present", "ready", "file")
     \/ CtorMoved("model_absent", "download", "none")

\* HollyPiperVoice._download_model: the two urlretrieve calls under
\* try/except Exception, which sets model_path = None.
PiperDownloadModel ==
  /\ backend = "piper"
  /\ th.pc = "download"
  /\ \/ CtorMoved("download_ok", "ready", "file")
     \/ CtorMoved("download_failed", "ready", "none")

\* What piper may do with one request: with --model None it exits with an
\* error or hangs into the timeout.
PiperEngineChoices(c, text, uc, model_path) ==
  LET all == EngineChoices("piper", FALSE, c, text, HOLLY, uc)
  IN IF model_path = "none" /\ all = SynthOutcomes("piper")
     THEN {s \in all : s.r # "ok"} ELSE all

\* generate on the constructed Piper instance.
PiperGenerate ==
  /\ backend = "piper"
  /\ th.pc = "ready"
  /\ \E text \in texts, uc \in BOOLEAN :
       \E s \in PiperEngineChoices(cache, text, uc, th.model_path) :
         \E w \in WriteChoices("piper", FALSE, cache, text, HOLLY, uc, s) :
           Completed(generate("piper", FALSE, cache, text, HOLLY, uc, s, w))

NextCtor ==
  \/ LoadEngine
  \/ DownloadModels
  \/ ReloadEngine
  \/ LoadReferenceAudio
  \/ CheckModelFiles
  \/ PiperDownloadModel
  \/ PiperGenerate

SpecCtor == InitCtor /\ [][NextCtor]_vars

(***************************************************************************)
(* The gTTS backend: the MP3 of one generate call and its two decoders      *)
(***************************************************************************)
\* 16-bit sample values an MP3 may decode to.
RawSamples == {0, 2 ^ 14}

\* The decoded content of an MP3: frames of one or two samples.
Mp3Sources ==
  UNION {[channels : {ch}, frames : [1..n -> [1..ch -> RawSamples]],
          frame_rate : {24000}] : ch \in {1, 2}, n \in 1..MaxFrames}

\* A numpy array: its shape and its rows; a sample value v stands for
\* v / 2^16.
Array1(rows) == [shape |-> <<Len(rows)>>, rows |-> rows]
Array2(rows, ch) == [shape |-> <<Len(rows), ch>>, rows |-> rows]
NoArray == [shape |-> <<>>, rows |-> <<>>]

\* sf.read(mp3_path): a one-dimensional array for one channel, an array of
\* frames by channels for more.
sf_read_mp3(src) ==
  IF src.channels = 1
  THEN Array1([i \in DOMAIN src.frames |-> 2 * src.frames[i][1]])
  ELSE Array2([i \in DOMAIN src.frames |->
                 [c \in 1..src.channels |-> 2 * src.frames[i][c]]],
              src.channels)

\* sound.get_array_of_samples(): the samples of all channels interleaved.
RECURSIVE Interleaved(_)
Interleaved(frames) ==
  IF frames = <<>> THEN <<>> ELSE Head(frames) \o Interleaved(Tail(frames))

\* The pydub branch: the interleaved samples divided by 32768.0, and for two
\* channels reshape((-1, 2)).mean(axis=1).
pydub_decode(src) ==
  LET samples == [i \in DOMAIN Interleaved(src.frames) |->
                    2 * Interleaved(src.frames)[i]]
  IN IF src.channels = 2
     THEN Array1([i \in 1..(Len(samples) \div 2) |->
                    (samples[2 * i - 1] + samples[2 * i]) \div 2])
     ELSE Array1(samples)

GttsIdle(uc) ==
  [pc |-> "start", uc |-> uc, src |-> <<>>, decoder |-> "none",
   audio |-> NoArray, sr |-> 0, ret |-> NoArray, saved |-> NoArray,
   fallback |-> FALSE]

InitGtts ==
  /\ backend = "gtts"
  /\ apiKey = FALSE
  /\ texts \in {{t} : t \in Texts}
  /\ cache = [k \in {} |-> Absent]
  /\ last = NoCall
  /\ th \in {GttsIdle(uc) : uc \in BOOLEAN}
  /\ written = {}
  /\ hd = NoHandle

GttsStep(rec, c) ==
  /\ th' = rec
  /\ cache' = c
  /\ UNCHANGED <<backend, apiKey, texts, last, written, hd>>

\* The except branch: silence of the estimated duration, one-dimensional.
GttsFallback(text) ==
  GttsStep([th EXCEPT !.pc = "done", !.fallback = TRUE, !.sr = 24000,
                      !.ret = Array1([i \in 1..SilenceSamples(24000, Len(text), 15)
                                        |-> 0])],
           cache)

\* gTTS(text=text, lang='en', slow=False) and tts.save(mp3_path), after the
\* cache lookup missed.
TtsSave ==
  /\ th.pc = "start"
  /\ \/ \E src \in Mp3Sources :
          GttsStep([th EXCEPT !.pc = "sf_read", !.src = src], cache)
     \/ \E text \in texts : GttsFallback(text)

\* audio, sample_rate = sf.read(mp3_path), or the bare except that leads to
\* pydub when this libsndfile does not read MP3.
SfReadMp3 ==
  /\ th.pc = "sf_read"
  /\ \/ GttsStep([th EXCEPT !.pc = "unlink", !.decoder = "soundfile",
                             !.audio = sf_read_mp3(th.src),
                             !.sr = th.src.frame_rate], cache)
     \/ GttsStep([th EXCEPT !.pc = "pydub"], cache)

\* AudioSegment.from_mp3 and the conversion to an array, which raises when
\* pydub or ffmpeg is missing.
PydubDecode ==
  /\ th.pc = "pydub"
  /\ \/ GttsStep([th EXCEPT !.pc = "unlink", !.decoder = "pydub",
                             !.audio = pydub_decode(th.src),
                             !.sr = th.src.frame_rate], cache)
     \/ \E text \in texts : GttsFallback(text)

\* os.unlink(mp3_path), the cache write and the return.
GttsReturn ==
  /\ th.pc = "unlink"
  /\ \E text \in texts, w \in (IF th.uc THEN WriteOutcomes ELSE {"ok"}) :
       GttsStep([th EXCEPT !.pc = "done", !.ret = th.audio,
                           !.saved = IF th.uc THEN th.audio ELSE NoArray],
                IF th.uc
                THEN save_to_cache(cache, get_cache_key(backend, text, HOLLY),
                                   Speech(th.audio.shape[1]), th.sr, w).cache
                ELSE cache)

NextGtts == TtsSave \/ SfReadMp3 \/ PydubDecode \/ GttsReturn

SpecGtts == InitGtts /\ [][NextGtts]_vars

(***************************************************************************)
(* The cache keys of two requests whose text and voice may hold the         *)
(* separator                                                                *)
(***************************************************************************)
KeyChars == {"a", ":"}
KeyStrings == UNION {[1..n -> KeyChars] : n \in 1..MaxKeyLen}

\* The backends whose _get_cache_key digests text and voice.
KeyedBackends == {"fish", "fishv2", "cloud"}

KeyRequests ==
  [text : KeyStrings, voice : KeyStrings, pc : {"start"}, key : {<<>>}]

InitKey ==
  /\ backend \in KeyedBackends
  /\ apiKey = (backend = "cloud")
  /\ th \in [{1, 2} -> KeyRequests]
  /\ texts = {th[1].text, th[2].text}
  /\ cache = [k \in {} |-> Absent]
  /\ last = NoCall
  /\ written = {}
  /\ hd = NoHandle

\* cache_key = self._get_cache_key(text, voice) of one request.
ComputeKey ==
  \E w \in DOMAIN th :
    /\ th[w].pc = "start"
    /\ th' = [th EXCEPT ![w].pc = "keyed",
                        ![w].key = get_cache_key(backend, th[w].text,
                                                 th[w].voice)]
    /\ UNCHANGED <<backend, apiKey, texts, cache, last, written, hd>>

NextKey == ComputeKey

SpecKey == InitKey /\ [][NextKey]_vars

(***************************************************************************)
(* clear_cache, get_cache_stats and generate calls of two threads, one step *)
(* per directory scan, unlink and stat                                      *)
(***************************************************************************)
MaintOps == {"clear_cache", "get_cache_stats", "generate"}

MaintJob(op) ==
  [op |-> op, pc |-> "start", files |-> {}, raised |-> FALSE,
   cached_phrases |-> 0, total_size |-> 0]

\* The cache directories a run may start with: complete files under the
\* keys of some texts.
StartCaches(b) ==
  {[k \in {get_cache_key(b, t, HOLLY) : t \in ts} |->
      WavFile(Speech(4000), HitRate(b))] : ts \in SUBSET Texts}

InitMaint ==
  /\ backend \in Backends
  /\ apiKey = (backend = "cloud")
  /\ texts \in {{t} : t \in Texts}
  /\ cache \in StartCaches(backend)
  /\ last = NoCall
  /\ th \in [{1, 2} -> {MaintJob(op) : op \in MaintOps}]
  /\ written = {}
  /\ hd = NoHandle

MaintStep(w, rec, c) ==
  /\ th' = [th EXCEPT ![w] = rec]
  /\ cache' = c
  /\ UNCHANGED <<backend, apiKey, texts, last, written, hd>>

\* CACHE_DIR.glob("*.wav"): the directory listing, taken at once.
ScanDir ==
  \E w \in DOMAIN th :
    /\ th[w].pc = "start"
    /\ th[w].op \in {"clear_cache", "get_cache_stats"}
    /\ MaintStep(w, [th[w] EXCEPT !.pc = IF GlobWav(cache) = {} THEN "done"
                                         ELSE "scanned",
                                  !.files = GlobWav(cache),
                                  !.cached_phrases = Cardinality(GlobWav(cache))],
                 cache)

\* What remains to do after the listed file k: the next file, or the return.
AfterFile(job, k) ==
  [job EXCEPT !.files = job.files \ {k},
              !.pc = IF job.files = {k} THEN "done" ELSE "scanned"]

\* cache_file.unlink(): FileNotFoundError when the file is gone.
UnlinkFile ==
  \E w \in DOMAIN th :
    /\ th[w].pc = "scanned"
    /\ th[w].op = "clear_cache"
    /\ \E k \in th[w].files :
         IF Exists(cache, k)
         THEN MaintStep(w, AfterFile(th[w], k),
                        [j \in DOMAIN cache \ {k} |-> cache[j]])
         ELSE MaintStep(w, [th[w] EXCEPT !.pc = "done", !.raised = TRUE], cache)

\* f.stat().st_size: FileNotFoundError when the file is gone.
StatFile ==
  \E w \in DOMAIN th :
    /\ th[w].pc = "scanned"
    /\ th[w].op = "get_cache_stats"
    /\ \E k \in th[w].files :
         IF Exists(cache, k)
         THEN MaintStep(w, [AfterFile(th[w], k) EXCEPT
                              !.total_size = th[w].total_size
                                             + FileSize(cache[k])],
                        cache)
         ELSE MaintStep(w, [th[w] EXCEPT !.pc = "done", !.raised = TRUE], cache)

MaintGenerated(w, r) ==
  MaintStep(w, [th[w] EXCEPT !.pc = "done", !.raised = r.ret.raised], r.cache)

\* A whole generate(text, "holly", use_cache=True) of the other thread.
MaintGenerate ==
  \E w \in DOMAIN th, text \in texts :
    /\ th[w].pc = "start"
    /\ th[w].op = "generate"
    /\ \E s \in EngineChoices(backend, apiKey, cache, text, HOLLY, TRUE) :
         \E wr \in WriteChoices(backend, apiKey, cache, text, HOLLY, TRUE, s) :
           MaintGenerated(w, generate(backend, apiKey, cache, text, HOLLY,
                                      TRUE, s, wr))

NextMaint == ScanDir \/ UnlinkFile \/ StatFile \/ MaintGenerate

SpecMaint == InitMaint /\ [][NextMaint]_vars

(***************************************************************************)
(* Concurrent generate(text, "holly", use_cache=True) calls of two workers  *)
(* sharing CACHE_DIR, one step per file system or engine call               *)
(***************************************************************************)
Workers == {1, 2}

Idle ==
  [pc |-> "start", sawAbsent |-> FALSE, synth |-> "none", audio |-> NoAudio,
   sr |-> 0, hit |-> FALSE, gen |-> FALSE, wrote |-> FALSE, raised |-> FALSE,
   ret |-> NoAudio, rsr |-> 0]

InitConc ==
  /\ backend \in Backends
  /\ apiKey = (backend = "cloud")
  /\ texts \in {{t} : t \in Texts}
  /\ cache = [k \in {} |-> Absent]
  /\ last = NoCall
  /\ th = [w \in Workers |-> Idle]
  /\ written = {}
  /\ hd = NoHandle

\* The key both workers compute.
WorkerKey == get_cache_key(backend, CHOOSE t \in texts : TRUE, HOLLY)

Step(w, rec, c) ==
  /\ th' = [th EXCEPT ![w] = rec]
  /\ cache' = c
  /\ UNCHANGED <<backend, apiKey, texts, last, written, hd>>

\* cache_path.exists()
CheckExists ==
  \E w \in DOMAIN th :
    /\ th[w].pc = "start"
    /\ Step(w, IF Exists(cache, WorkerKey)
               THEN [th[w] EXCEPT !.pc = "read"]
               ELSE [th[w] EXCEPT !.pc = "synth", !.sawAbsent = TRUE],
            cache)

\* sf.read of the cache file under the bare except, and the return of a hit.
ReadDone(w, r) ==
  Step(w, IF r.exc THEN [th[w] EXCEPT !.pc = "synth"]
          ELSE [th[w] EXCEPT !.pc = "done", !.hit = TRUE, !.ret = r.audio,
                             !.rsr = HitRate(backend)],
       cache)

ReadCache ==
  \E w \in DOMAIN th :
    /\ th[w].pc = "read"
    /\ ReadDone(w, sf_read(FileAt(cache, WorkerKey)))

\* The try body up to the cache write, or the except branch when it raises.
SynthDone(w, s, t, x) ==
  Step(w, IF t.exc
          THEN [th[w] EXCEPT !.pc = "done", !.gen = TRUE, !.synth = s.r,
                             !.raised = x.raised, !.ret = x.audio,
                             !.rsr = x.sr]
          ELSE IF t.early
          THEN [th[w] EXCEPT !.pc = "done", !.gen = TRUE, !.synth = s.r,
                             !.ret = t.audio, !.rsr = t.sr]
          ELSE [th[w] EXCEPT !.pc = "open", !.gen = TRUE, !.synth = s.r,
                             !.audio = t.audio, !.sr = t.sr],
       cache)

Synthesize ==
  \E w \in DOMAIN th :
    /\ th[w].pc = "synth"
    /\ \E s \in SynthOutcomes(backend) :
         SynthDone(w, s, TryBody(backend, apiKey, CHOOSE t \in texts : TRUE, s),
                   ExceptBranch(backend, CHOOSE t \in texts : TRUE))

\* sf.write, first system call: open(path, O_WRONLY | O_CREAT | O_TRUNC).
OpenForWrite ==
  \E w \in DOMAIN th :
    /\ th[w].pc = "open"
    /\ Step(w, [th[w] EXCEPT !.pc = "header"],
            PutFile(cache, WorkerKey, EmptyFile))

\* sf.write, the header written at offset 0 when the file is opened: no
\* frames yet.
HeaderWritten(w, f) ==
  Step(w, [th[w] EXCEPT !.pc = "data1"],
       PutFile(cache, WorkerKey, [f EXCEPT !.st = "wav", !.n = 0, !.sr = th[w].sr]))

WriteHeader ==
  \E w \in DOMAIN th :
    /\ th[w].pc = "header"
    /\ HeaderWritten(w, FileAt(cache, WorkerKey))

\* sf.write, the samples, written in two calls at the worker's own offset.
\* Data written into a file another worker has truncated since the header
\* went out leaves a hole where the header was.
DataWritten(w, f) ==
  LET st == IF f.st = "wav" THEN "wav" ELSE "nohdr"
  IN IF th[w].pc = "data1"
     THEN Step(w, [th[w] EXCEPT !.pc = "data2"],
               PutFile(cache, WorkerKey,
                       [f EXCEPT !.st = st, !.h1 = th[w].audio,
                                 !.len = Max(f.len, th[w].audio.n \div 2)]))
     ELSE Step(w, [th[w] EXCEPT !.pc = "close"],
               PutFile(cache, WorkerKey,
                       [f EXCEPT !.st = st, !.h2 = th[w].audio,
                                 !.len = Max(f.len, th[w].audio.n)]))

WriteData ==
  \E w \in DOMAIN th :
    /\ th[w].pc \in {"data1", "data2"}
    /\ DataWritten(w, FileAt(cache, WorkerKey))

\* sf.write, closing: the header is rewritten at offset 0 with the rate of
\* this writer and a frame count, which libsndfile takes from the frames
\* this writer wrote or from the length of the file, depending on its
\* version; generate then returns its audio.
Closed(w, f, frames) ==
  Step(w, [th[w] EXCEPT !.pc = "done", !.wrote = TRUE, !.ret = th[w].audio,
                        !.rsr = th[w].sr],
       PutFile(cache, WorkerKey,
               [f EXCEPT !.st = "wav", !.n = frames, !.sr = th[w].sr]))

CloseFile ==
  \E w \in DOMAIN th :
    /\ th[w].pc = "close"
    /\ \E frames \in {th[w].audio.n, FileAt(cache, WorkerKey).len} :
         Closed(w, FileAt(cache, WorkerKey), frames)

NextConc ==
  \/ CheckExists
  \/ ReadCache
  \/ Synthesize
  \/ OpenForWrite
  \/ WriteHeader
  \/ WriteData
  \/ CloseFile

SpecConc == InitConc /\ [][NextConc]_vars

(***************************************************************************)
(* Properties                                                               *)
(***************************************************************************)
\* The last call was generate with use_cache=True, right after a generate
\* with use_cache=True of the same text and voice.
SecondCachedCall ==
  last.op = "generate" /\ last.uc /\ last.follows = "same_cached"

\* C1, as stated: whenever generate(text, voice, use_cache=True) is called
\* twice in a row, the second call is served from the cache entry of the
\* first and makes no synthesis call.
C1_SecondCallAlwaysServedFromCache ==
  SecondCachedCall => (last.hit /\ ~last.call)

\* C1, amended: when the first of two generate(text, voice, use_cache=True)
\* calls in a row leaves a readable cache file for the key, the second call
\* returns the audio decoded from that file, runs no synthesis and leaves
\* the file as it is; when the first call leaves no readable file (it
\* returned a fallback, or its cache write failed), the second call misses
\* and generates again.
C1_SecondCallServedFromReadableEntry ==
  SecondCachedCall =>
    IF last.before.st = "wav"
    THEN /\ last.hit /\ ~last.gen /\ ~last.call
         /\ last.audio = Decode(last.before)
         /\ last.after = last.before
    ELSE ~last.hit /\ last.gen

C1_Witness ==
  /\ SecondCachedCall
  /\ last.before.st = "wav"
  /\ last.hit
  /\ last.audio.kind = "speech"

\* C2: generate(text, voice, use_cache=True) on a key whose cache file exists
\* but holds garbage bytes is a miss: no hit, generation runs (with an engine
\* call wherever the backend has an engine and its credentials), and the
\* call does not raise.
C2_GarbageEntryIsMiss ==
  (last.op = "generate" /\ last.uc /\ last.before.st = "garbage") =>
    /\ ~last.hit
    /\ last.gen
    /\ ~last.raised
    /\ (backend # "fish" /\ (backend = "cloud" => apiKey)) => last.call

C2_Witness ==
  /\ last.op = "generate" /\ last.uc
  /\ last.before.st = "garbage"
  /\ last.call /\ last.synth = "ok"
  /\ last.after.st = "wav"

\* The file is what one complete sf.write leaves.
CompleteEntry(f) ==
  /\ f.st = "wav"
  /\ f.h1 = f.h2 /\ f.h1.kind # "none"
  /\ f.n = f.h1.n /\ f.len = f.h1.n

\* C3, as stated: a cache hit on an entry written with samples S at rate R
\* returns as many samples as S and reports the rate R that was stored.
C3_HitReportsStoredRate ==
  (last.op = "generate" /\ last.hit /\ CompleteEntry(last.before)) =>
    (last.audio.n = last.before.n /\ last.sr = last.before.sr)

C5_VoicesHaveDistinctKeys ==
  [][(/\ last.op = "generate" /\ last'.op = "generate"
      /\ last'.text = last.text /\ last'.voice # last.voice)
     => last'.key # last.key]_vars

\* C6, as stated: the cloud backend without an API key answers
\* generate(text, use_cache=False) without raising and without an HTTP
\* request, with all-zero audio of int(24000 * len(text) / 20) samples at
\* 24000 Hz.
C6_NoKeyFallbackLength ==
  (last.op = "generate" /\ backend = "cloud" /\ ~apiKey /\ ~last.uc) =>
    /\ ~last.raised
    /\ ~last.call
    /\ last.sr = 24000
    /\ last.audio = Silence((24000 * Len(last.text)) \div 20)

\* C7: get_cache_stats called right after clear_cache reports no cached
\* phrase and a total size of zero.
C7_StatsAfterClearAreZero ==
  (last.op = "get_cache_stats"
     /\ last.follows \in {"cleared_files", "cleared_empty"}) =>
    /\ last.cached_phrases = 0
    /\ last.total_size = 0
    /\ last.total_size_mb = 0

C7_Witness ==
  /\ last.op = "get_cache_stats"
  /\ last.follows = "cleared_files"
  /\ last.cached_phrases = 0

\* Both workers have returned, both found no cache file when they looked,
\* and the engine answered both.
BothMissedAndSynthesized ==
  /\ th # <<>>
  /\ \A w \in DOMAIN th :
       th[w].pc = "done" /\ th[w].sawAbsent /\ th[w].synth = "ok"

\* C8, as stated: two concurrent generate calls that both miss on the same
\* uncached key both synthesize, both write and both return their audio,
\* and afterwards the cache file of the key is readable and decodes to the
\* audio of one of the two writes.
C8_ConcurrentWritesLeaveOneCompleteEntry ==
  BothMissedAndSynthesized =>
    /\ \A w \in DOMAIN th :
         /\ th[w].gen /\ th[w].wrote /\ ~th[w].raised
         /\ th[w].ret = th[w].audio
    /\ FileAt(cache, WorkerKey).st = "wav"
    /\ \E w \in DOMAIN th :
         Decode(FileAt(cache, WorkerKey)) = th[w].audio

\* C9, as stated: when the cache write of generate(use_cache=True) fails,
\* generate logs the failure, returns the audio it synthesized without
\* raising, and a key that had no cache file still has none.
C9_FailedWriteLeavesNoEntry ==
  (last.op = "generate" /\ last.saved \in (WriteOutcomes \ {"ok"})) =>
    /\ ~last.raised
    /\ ~last.fallback
    /\ "cache_save_failed" \in last.log
    /\ (last.before.st = "absent" => last.after.st = "absent")

\* C10, as stated: the cloud backend with an API key raises to its caller
\* when the endpoint answers a non-200 status, the request times out or the
\* response cannot be decoded, and returns no audio.
C10_CloudFailurePropagates ==
  (/\ last.op = "generate" /\ backend = "cloud" /\ apiKey
   /\ last.synth \in {"status", "timeout", "undecodable"}) =>
    (last.raised /\ last.audio = NoAudio)

\* C11, as stated: the Piper backend raises to its caller when the piper
\* subprocess exits with a non-zero status or runs into the 30 second
\* timeout, and returns no audio.
C11_PiperFailurePropagates ==
  (/\ last.op = "generate" /\ backend = "piper"
   /\ last.synth \in {"exit", "timeout"}) =>
    (last.raised /\ last.audio = NoAudio)

\* C12: when the engine raises in the v2 backend, generate does not raise
\* and returns the same beep for every text: a tone of 12000 samples at
\* 24000 Hz.
C12_V2FailureReturnsBeep ==
  (last.op = "generate" /\ backend = "fishv2" /\ last.synth = "raise") =>
    /\ ~last.raised
    /\ last.audio = Tone(12000)
    /\ last.sr = 24000

C12_Witness ==
  /\ last.op = "generate" /\ backend = "fishv2" /\ last.synth = "raise"
  /\ Len(last.text) = 2
  /\ last.audio.kind = "tone"

\* C15: a generate call (hit, miss, fallback or failed write, with or
\* without use_cache) and a get_cache_stats call remove no cache file and
\* leave every readable cache file as it is; get_cache_stats leaves the
\* whole directory as it is.
C15_OnlyClearRemovesEntries ==
  [][(last'.op \in {"generate", "get_cache_stats"}) =>
       /\ \A k \in DOMAIN cache :
            k \in DOMAIN cache' /\ (cache[k].st = "wav" => cache'[k] = cache[k])
       /\ last'.op = "get_cache_stats" => cache' = cache]_vars

C15_Witness ==
  /\ last.op = "generate"
  /\ last.saved \in (WriteOutcomes \ {"ok"})
  /\ last.before.st = "garbage"
  /\ last.after.st # "absent"
  /\ Cardinality(DOMAIN cache) >= 2

\* C16, as stated: cached_phrases of get_cache_stats is the number of
\* distinct keys whose synthesis completed and was written with
\* use_cache=True since the most recent clear_cache.
C16_CountEqualsWrittenKeys ==
  (last.op = "get_cache_stats") => (last.cached_phrases = Cardinality(written))

\* The backend reaches its engine: it has one, and its credentials.
HasEngine == backend # "fish" /\ (backend = "cloud" => apiKey)

\* C17: generate(text, voice, use_cache=False) is never a cache hit, runs
\* the generation (with an engine call wherever the backend has an engine
\* and its credentials) even when a readable entry exists for the key, and
\* leaves the cache directory as it is.
C17_NoCacheCallLeavesCacheAlone ==
  [][(last'.op = "generate" /\ ~last'.uc) =>
       /\ cache' = cache
       /\ ~last'.hit
       /\ last'.gen
       /\ last'.saved = "none"
       /\ HasEngine => last'.call]_vars

C17_Witness ==
  /\ last.op = "generate" /\ ~last.uc
  /\ last.before.st = "wav"
  /\ last.call

\* C18, as stated: a generate call that returns silent placeholder audio
\* has logged a warning or a failure message.
C18_SilenceIsLoggedAsDegraded ==
  (last.op = "generate" /\ last.gen /\ last.audio.kind = "silence") =>
    (last.log \cap {"no_api_key", "generation_failed"} # {})

\* C20: a cache hit returns 22050 as the sample rate in the Piper backend
\* and 24000 in the others, whatever rate the entry was stored with, and
\* runs no generation, no engine call and no cache write.
C20_HitRateFixedPerBackend ==
  (last.op = "generate" /\ last.hit) =>
    /\ last.sr = (IF backend = "piper" THEN 22050 ELSE 24000)
    /\ ~last.gen /\ ~last.call
    /\ last.saved = "none"
    /\ last.after = last.before

C20_Witness ==
  /\ last.op = "generate" /\ last.hit
  /\ backend = "piper"
  /\ last.before.sr = 44100
  /\ last.sr = 22050


\* C13: sequentially, nothing is constructed before the first
\* get_holly_voice()/get_generator() call, and once a construction has
\* succeeded every later call returns that instance and runs no constructor.
C13_HandleIsLazyAndMemoized ==
  /\ [](hd.req.op = "none" => hd.ctor = 0 /\ hd.inst = 0 /\ hd.app = 0)
  /\ [][hd.inst # 0 =>
          /\ hd'.inst = hd.inst
          /\ hd'.ctor = hd.ctor
          /\ ~hd'.req.ran
          /\ hd'.req.ret = hd.inst]_vars

C13_Witness ==
  /\ hd.req.op = "get_holly_voice"
  /\ hd.inst # 0
  /\ ~hd.req.ran
  /\ hd.req.ret = hd.inst
  /\ hd.ctor > hd.oks

\* C14: when two threads call get_holly_voice() while the global is None,
\* the constructor runs at most once and the callers get the same instance.
C14_ConcurrentFirstUseConstructsOnce ==
  /\ hd.oks <= 1
  /\ \A v \in DOMAIN th, w \in DOMAIN th :
       (th[v].pc = "done" /\ th[w].pc = "done"
          /\ ~th[v].raised /\ ~th[w].raised) => th[v].ret = th[w].ret

C25_FallbackIsNeverCached ==
  [][/\ (last'.op = "generate" /\ last'.fallback) => cache' = cache
     /\ (/\ last.op = "generate" /\ last.fallback /\ last.uc
         /\ last'.op = "generate" /\ last'.uc
         /\ last'.text = last.text /\ last'.voice = last.voice)
          => ~last'.hit /\ last'.gen]_vars

C25_Witness ==
  /\ last.op = "generate"
  /\ last.fallback
  /\ last.follows = "same_cached"
  /\ backend = "cloud" /\ ~apiKey
  /\ last.gen /\ ~last.hit
  /\ last.after = Absent

\* C28: the temporary file a generate call created is deleted when the call
\* returns, on the failure paths too.
C28_TempFileDeletedOnEveryPath ==
  last.op = "generate" => last.tmp # "left"

\* C29: when generate with use_cache finds an unreadable cache file and the
\* synthesis and the cache write succeed, the file is overwritten with the
\* audio, and the same call repeated next is a hit with no synthesis.
Healed(c) ==
  /\ c.op = "generate" /\ c.uc
  /\ c.before.st \notin {"absent", "wav"}
  /\ c.gen /\ ~c.fallback /\ ~c.raised /\ c.saved = "ok"

C29_CorruptEntryIsOverwritten ==
  /\ [](Healed(last) =>
          /\ ~sf_read(last.after).exc
          /\ sf_read(last.after).audio = last.audio)
  /\ [][(/\ Healed(last)
         /\ last'.op = "generate" /\ last'.uc
         /\ last'.text = last.text /\ last'.voice = last.voice)
          => last'.hit /\ ~last'.gen /\ ~last'.call
             /\ last'.audio = last.audio]_vars

C29_Witness ==
  /\ Healed(last)
  /\ last.before = Garbage
  /\ last.after = WavFile(last.audio, last.sr)

\* C30: a construction that raises leaves both module globals None, and the
\* next call runs the constructor again.
C30_FailedConstructionLeavesNone ==
  [][/\ (hd'.ctor > hd.ctor /\ hd'.oks = hd.oks) =>
          /\ hd'.inst = 0 /\ hd'.app = 0
          /\ hd'.req.status \in {0, 500, 503}
     /\ (hd.ctor > hd.oks /\ hd.oks = 0) =>
          /\ hd.inst = 0 /\ hd.app = 0
          /\ hd'.req.ran /\ hd'.ctor = hd.ctor + 1]_vars

C30_Witness ==
  /\ hd.ctor = 2 /\ hd.oks = 1
  /\ hd.inst = 2
  /\ hd.req.ran /\ ~hd.req.raised


\* C24: in the backends that key on text and voice, two requests that differ
\* in text or in voice never get the same key, also when text or voice holds
\* the separator ":".
C24_KeyInjectiveInTextAndVoice ==
  \A v \in DOMAIN th, w \in DOMAIN th :
    (/\ th[v].pc = "keyed" /\ th[w].pc = "keyed"
     /\ <<th[v].text, th[v].voice>> # <<th[w].text, th[w].voice>>)
      => th[v].key # th[w].key


\* C26: clear_cache and get_cache_stats never raise, whatever the other
\* thread does between their directory scan and their unlink or stat.
C26_MaintenanceNeverRaises ==
  \A w \in DOMAIN th :
    th[w].op \in {"clear_cache", "get_cache_stats"} => ~th[w].raised


\* C27: a generate with use_cache never raises because of the cache layer,
\* and a cache file that is gone or only partly written when it is read
\* counts as a miss: a call that returns as a hit returns a buffer as some
\* writer passed it to the cache.
C27_PartialEntryIsMiss ==
  \A w \in DOMAIN th :
    /\ ~th[w].raised
    /\ th[w].hit => th[w].ret.kind # "damaged"


\* C22: in the gTTS backend every audio a successful synthesis returns, and
\* every audio passed to the cache, is mono, with either decoder and for a
\* source of one or of two channels.
C22_GttsAudioIsMono ==
  (th.pc = "done" /\ ~th.fallback) =>
    /\ Len(th.ret.shape) = 1
    /\ th.uc => Len(th.saved.shape) = 1


\* The events of one kind in a constructor trace.
Events(t, kinds) == {i \in DOMAIN t : t[i] \in kinds}

\* C21: in the v2 constructor a failed first engine load is followed by
\* exactly one download and, when that succeeds, exactly one further load;
\* a failed download or second load ends the construction with the
\* exception, and nothing is attempted after it.
C21_OneDownloadThenOneLoad ==
  LET t == th.trace
      loads == Events(t, {"load_ok", "load_failed"})
      downloads == Events(t, {"download_ok", "download_failed"})
      over == th.pc \in {"ready", "failed"}
  IN backend = "fishv2" =>
       /\ Cardinality(loads) <= 2 /\ Cardinality(downloads) <= 1
       /\ downloads # {} => t[1] = "load_failed" /\ downloads = {2}
       /\ Cardinality(loads) = 2 => loads = {1, 3} /\ t[2] = "download_ok"
       /\ (over /\ Len(t) >= 1 /\ t[1] = "load_failed") =>
            /\ downloads = {2}
            /\ t[2] = "download_ok" => loads = {1, 3}
       /\ (Len(t) >= 2 /\ t[2] = "download_failed") =>
            th.pc = "failed" /\ th.raised /\ Len(t) = 2
       /\ (Len(t) >= 3 /\ t[3] = "load_failed") =>
            th.pc = "failed" /\ th.raised /\ Len(t) = 3

C21_Witness ==
  /\ backend = "fishv2"
  /\ th.pc = "failed"
  /\ th.trace = <<"load_failed", "download_ok", "load_failed">>

\* C23: when the Piper model download fails, the constructor does not raise
\* and leaves model_path None, and every generate that is not served from
\* the cache returns, without raising, all-zero audio of
\* int(22050 * len(text) / 15) samples at 22050 Hz.
C23_PiperWithoutModelDegrades ==
  (backend = "piper" /\ Events(th.trace, {"download_failed"}) # {}) =>
    /\ th.pc = "ready" /\ ~th.raised /\ th.model_path = "none"
    /\ (last.op = "generate" /\ ~last.hit) =>
         /\ ~last.raised
         /\ last.sr = 22050
         /\ last.audio = Silence((22050 * Len(last.text)) \div 15)

====
